---- MODULE Spec2Model ----
(***************************************************************************)
(* Model of the insights-operator record collection driver                 *)
(* (pkg/record/interface.go: Collect, recordGatherReport, uniqueStrings)   *)
(* and of the cluster version cache of the cluster configuration gatherer  *)
(* (pkg/gather/clusterconfig/clusterconfig.go: setClusterVersion,          *)
(* ClusterVersion).                                                        *)
(*                                                                         *)
(* Go strings are sequences of byte values, so that sort.Strings,          *)
(* fmt.Sprintf and strings.Join are computed on the bytes.                 *)
(***************************************************************************)
EXTENDS Integers, Sequences, FiniteSets, TLC

(***************************************************************************)
(* Bounds of the model.                                                    *)
(***************************************************************************)
\* the largest number of gather routines handed to one call of Collect
MaxRoutines == 2
\* the largest number of Records all routines of one call return together
MaxRecords == 2
\* the largest number of errors all routines of one call return together
MaxErrors == 1
\* the longest list of strings handed to sort.Strings / uniqueStrings alone
MaxListLen == 4

(***************************************************************************)
(* Strings.                                                                *)
(***************************************************************************)
\* "a", "b": names of gathered Records
RecordNames == {<<97>>, <<98>>}
\* "b", "x": messages of the errors a gather routine returns
RoutineErrors == {<<98>>, <<120>>}
\* "e", "f": messages of the errors the sink's Record() returns
SinkErrors == {<<101>>, <<102>>}
\* the strings of the lists sorted and deduplicated on their own:
\* "a", "ab", "b", "c"
ListStrings == {<<97>>, <<97, 98>>, <<98>>, <<99>>}

\* "insights-operator/gathers"
ReportName ==
    <<105, 110, 115, 105, 103, 104, 116, 115, 45, 111, 112, 101, 114, 97, 116,
      111, 114, 47, 103, 97, 116, 104, 101, 114, 115>>
\* "unable to record "
UnableToRecordPrefix ==
    <<117, 110, 97, 98, 108, 101, 32, 116, 111, 32, 114, 101, 99, 111, 114,
      100, 32>>
\* ": "
ColonSpace == <<58, 32>>
\* "unable to record io status reports: "
UnableToRecordReportPrefix ==
    <<117, 110, 97, 98, 108, 101, 32, 116, 111, 32, 114, 101, 99, 111, 114,
      100, 32, 105, 111, 32, 115, 116, 97, 116, 117, 115, 32, 114, 101, 112,
      111, 114, 116, 115, 58, 32>>
\* ", "
CommaSpace == <<44, 32>>

\* fmt.Sprintf("unable to record %s: %v", record.Name, err)
UnableToRecord(name, err) == UnableToRecordPrefix \o name \o ColonSpace \o err

\* fmt.Sprintf("unable to record io status reports: %v", err)
UnableToRecordReport(err) == UnableToRecordReportPrefix \o err

\* Go's s < t on strings: bytewise lexicographic order
RECURSIVE StringLess(_, _)
StringLess(s, t) ==
    IF t = << >> THEN FALSE
    ELSE IF s = << >> THEN TRUE
    ELSE IF Head(s) # Head(t) THEN Head(s) < Head(t)
    ELSE StringLess(Tail(s), Tail(t))

\* one insertion step of the sort: x placed before the first greater element
RECURSIVE InsertSorted(_, _)
InsertSorted(x, arr) ==
    IF arr = << >> THEN <<x>>
    ELSE IF StringLess(x, Head(arr)) THEN <<x>> \o arr
    ELSE <<Head(arr)>> \o InsertSorted(x, Tail(arr))

\* sort.Strings(errors): the list in increasing order, every element kept
RECURSIVE SortStrings(_)
SortStrings(arr) ==
    IF arr = << >> THEN << >>
    ELSE InsertSorted(Head(arr), SortStrings(Tail(arr)))

\* the for loop of uniqueStrings; arr[i] of the code is arr[i + 1] here
RECURSIVE uniqueLoop(_, _, _)
uniqueLoop(arr, last, i) ==
    IF i >= Len(arr) THEN [arr |-> arr, last |-> last]
    ELSE IF arr[i + 1] = arr[last + 1] THEN uniqueLoop(arr, last, i + 1)
    ELSE uniqueLoop(IF last + 1 # i
                    THEN [arr EXCEPT ![last + 2] = arr[i + 1]]
                    ELSE arr,
                    last + 1, i + 1)

\* uniqueStrings with the final increment left out: the last distinct
\* string is cut off
uniqueStringsDropLast(arr) ==
    LET r == uniqueLoop(arr, 0, 1)
    IN  SubSeq(r.arr, 1, r.last)

\* uniqueStrings(arr): adjacent equal strings collapsed, in place
uniqueStrings(arr) ==
    LET r == uniqueLoop(arr, 0, 1)
        last == IF r.last < Len(arr) THEN r.last + 1 ELSE r.last
    IN  SubSeq(r.arr, 1, last)

\* strings.Join(elems, sep)
RECURSIVE Join(_, _)
Join(elems, sep) ==
    IF elems = << >> THEN << >>
    ELSE IF Len(elems) = 1 THEN elems[1]
    ELSE elems[1] \o sep \o Join(Tail(elems), sep)

(***************************************************************************)
(* Values.                                                                 *)
(***************************************************************************)
\* a nil error
NoError == [kind |-> "nil"]
\* ctx.Err() of a cancelled context
ContextCanceled == [kind |-> "context.Canceled"]
\* fmt.Errorf("%s", text)
Errorf(text) == [kind |-> "fmt.Errorf", text |-> text]
\* the error a failing sink returns, with its message
SinkError(msg) == [kind |-> "sink", text |-> msg]

\* all sequences over S of length at most n
SeqsUpTo(S, n) == UNION {[1..m -> S] : m \in 0..n}

\* the sum of f[i] over 1..n
RECURSIVE SumTo(_, _)
SumTo(f, n) == IF n = 0 THEN 0 ELSE f[n] + SumTo(f, n - 1)

VARIABLES
    \* ---- Collect ----
    numFns,        \* len(bulkFns)
    pc,            \* where Collect stands
    fnIndex,       \* the position of bulkFn in bulkFns (from 1)
    records,       \* records returned by the current bulkFn
    recIndex,      \* the position of record in records (from 1)
    errors,        \* var errors []string
    gatherReport,  \* var gatherReport []interface{}
    ctxErr,        \* what ctx.Err() returns
    ret,           \* the error Collect returned; "running" before
    sink,          \* history: the calls of recorder.Record, with results
    invoked,       \* history: the bulkFns invoked, in order
    returned,      \* history: what each invoked bulkFn returned
    observed,      \* history: the results of ctx.Err() at each check
    cancelledAt,   \* history: where Collect stood when the context was
                   \*          cancelled
    \* ---- sort.Strings / uniqueStrings alone ----
    list,          \* the list of strings
    listIn,        \* history: the list as given
    listPc,        \* "given", "sorted", "unique"
    \* ---- Gatherer: the cluster version cache ----
    lastVersion,   \* i.lastVersion
    lock,          \* i.lock: the goroutines holding it
    callPc,        \* where each goroutine stands in its call
    callOp,        \* "set" (setClusterVersion) or "get" (ClusterVersion)
    callArg,       \* version, the argument of setClusterVersion
    callResult,    \* what ClusterVersion returned
    before,        \* history: i.lastVersion when the call took the lock
    outcome,       \* history: "replaced" or "skipped", once a call decided
    otherSince,    \* history: another resourceVersion was installed since
                   \*          the call took the lock
    presented,     \* history: the resourceVersions of finished updates
    written,       \* history: i.lastVersion was assigned at least once
    installDone,   \* history: the update that assigned i.lastVersion has
                   \*          released the lock
    \* ---- Gatherer.Gather: batches on one Gatherer ----
    kept,          \* which of the histories below is kept in this run:
                   \* "answers" (lastIn, lastOut), "names" (forwarded),
                   \* "version" (fetched, idOut, cachedAtStart, everFetched)
    gPc,           \* "idle", "running" (inside Gather), "forward" (a
                   \* routine has returned), "returned"
    gNames,        \* the names of the Records the routine returned
    gIndex,        \* the position in bulkFns of the routine to invoke next
    gCancelled,    \* history: ctx.Err() was not nil at the last check
    forwarded,     \* history: names of the Records handed to the sink in
                   \*          this batch, in order
    lastIn,        \* history: what the data sources answered to the routine
                   \*          invoked last
    lastOut,       \* history: what the routine invoked last returned
    fetched,       \* history: what ClusterVersions().Get answered in this
                   \*          batch
    idOut,         \* history: what the "config/id" routine returned in this
                   \*          batch
    cachedAtStart, \* history: i.lastVersion when this batch began
    everFetched,   \* history: a fetch of the cluster version has succeeded
    \* ---- anonymizeNode alone ----
    aNode,         \* the *corev1.Node handed to NodeAnonymizer.Marshal
    nodeIn,        \* history: the node as given
    nodePc,        \* "idle", "given", "anonymized"
    \* ---- the cluster version objects and who points at them ----
    heap,          \* the ClusterVersion objects, by address
    cachedAt,      \* i.lastVersion: the address of the cached object
    pending,       \* the addresses the "config/version" Records not yet
                   \* serialized hold
    wrapped,       \* history: the addresses ever held by such a Record
    handedOut,     \* history: what ClusterVersion() returned, as found
    installed      \* history: what setClusterVersion stored, as stored

collectVars == <<numFns, pc, fnIndex, records, recIndex, errors, gatherReport,
                 ctxErr, ret, sink, invoked, returned, observed,
                 cancelledAt>>
listVars == <<list, listIn, listPc>>
\* the calls of setClusterVersion and ClusterVersion under way
callVars == <<lock, callPc, callOp, callArg, callResult, before, outcome,
              otherSince, presented, written, installDone>>
cacheVars == <<lastVersion, callVars>>
gatherVars == <<kept, gPc, gNames, gIndex, gCancelled, forwarded, lastIn, lastOut, fetched,
                idOut, cachedAtStart, everFetched>>
nodeVars == <<aNode, nodeIn, nodePc>>
aliasVars == <<heap, cachedAt, pending, wrapped, handedOut, installed>>
vars == <<collectVars, listVars, cacheVars, gatherVars, nodeVars, aliasVars>>
\* what the steps of Collect leave alone
notCollectVars == <<listVars, cacheVars, gatherVars, nodeVars, aliasVars>>
\* what the steps on the list leave alone
notListVars == <<collectVars, cacheVars, gatherVars, nodeVars, aliasVars>>
\* what the steps on the cache leave alone
notCacheVars == <<collectVars, listVars, gatherVars, nodeVars, aliasVars>>
\* what the steps of Gather leave alone
notGatherVars == <<collectVars, listVars, callVars, nodeVars, aliasVars>>
\* what the anonymization of a node leaves alone
notNodeVars == <<collectVars, listVars, cacheVars, gatherVars, aliasVars>>
\* what the steps on the cluster version objects leave alone
notAliasVars == <<collectVars, listVars, cacheVars, gatherVars, nodeVars>>

(***************************************************************************)
(* Collect                                                                 *)
(***************************************************************************)
\* LoopHead with the loop left one routine early
LoopHeadSkipsLast(i) == IF i < numFns THEN "gather" ELSE "report"

\* the for statement over bulkFns: the next routine, or past the loop
LoopHead(i) == IF i <= numFns THEN "gather" ELSE "report"

\* RecordsHead with the loop left one record early
RecordsHeadSkipsLast(recs, j) == IF j < Len(recs) THEN "forward" ELSE "check"

\* the for statement over records: the next record, or past the loop
RecordsHead(recs, j) == IF j <= Len(recs) THEN "forward" ELSE "check"

\* the Records and errors returned so far in this call
RecordsSoFar == SumTo([i \in 1..Len(returned) |-> Len(returned[i].records)],
                      Len(returned))
ErrorsSoFar == SumTo([i \in 1..Len(returned) |-> Len(returned[i].errs)],
                     Len(returned))

\* what bulkFn() may return: any Records and any errors
Outcomes(fn) ==
    {[records |-> [j \in 1..Len(names) |->
                       [Name |-> names[j], Item |-> <<fn, j>>]],
      errs |-> errs] :
        names \in SeqsUpTo(RecordNames, MaxRecords - RecordsSoFar),
        errs \in SeqsUpTo(RoutineErrors, MaxErrors - ErrorsSoFar)}

\* what recorder.Record(r) may return
SinkResults == {NoError} \cup {SinkError(m) : m \in SinkErrors}

\* gatherStatusReport with the count of the errors in the place of the
\* count of the records
gatherStatusReportCountsErrors(gatherName, recs, errs) ==
    [Name |-> gatherName, Report |-> Len(errs), Errors |-> errs]

\* gatherStatusReport{gatherName, elapsed, len(records), errs}; the elapsed
\* time is left out
gatherStatusReport(gatherName, recs, errs) ==
    [Name |-> gatherName, Report |-> Len(recs), Errors |-> errs]

\* errors after `for _, err := range errs { errors = append(...) }`
AppendErrors(errList, errs) == errList \o errs

\* Gather where a cancelled context is noticed before the routine is
\* invoked
GatherUnlessCancelled ==
    /\ pc = "gather"
    /\ IF ctxErr # NoError
       THEN /\ ret' = ctxErr
            /\ pc' = "done"
            /\ UNCHANGED <<invoked, returned, gatherReport, errors, records,
                           recIndex>>
       ELSE /\ ret' = ret
            /\ \E out \in Outcomes(fnIndex) :
                /\ invoked' = Append(invoked, fnIndex)
                /\ returned' = Append(returned, out)
                /\ gatherReport' = Append(gatherReport,
                       gatherStatusReport(fnIndex, out.records, out.errs))
                /\ errors' = AppendErrors(errors, out.errs)
                /\ records' = out.records
                /\ recIndex' = 1
                /\ pc' = RecordsHead(out.records, 1)
    /\ UNCHANGED <<numFns, fnIndex, ctxErr, sink, observed,
                   cancelledAt, notCollectVars>>

\* lines 63-75: the routine is invoked, its report entry appended, its
\* errors appended to errors
Gather ==
    /\ pc = "gather"
    /\ \E out \in Outcomes(fnIndex) :
        /\ invoked' = Append(invoked, fnIndex)
        /\ returned' = Append(returned, out)
        /\ gatherReport' = Append(gatherReport,
               gatherStatusReport(fnIndex, out.records, out.errs))
        /\ errors' = AppendErrors(errors, out.errs)
        /\ records' = out.records
        /\ recIndex' = 1
        /\ pc' = RecordsHead(out.records, 1)
    /\ UNCHANGED <<numFns, fnIndex, ctxErr, ret, sink, observed,
                   cancelledAt, notCollectVars>>

\* Forward where a failure of the sink ends Collect with that error
ForwardAbortOnFailure ==
    /\ pc = "forward"
    /\ \E res \in SinkResults :
        /\ sink' = Append(sink, [record |-> records[recIndex], err |-> res])
        /\ IF res # NoError
           THEN /\ ret' = Errorf(UnableToRecord(records[recIndex].Name, res.text))
                /\ pc' = "done"
           ELSE /\ ret' = ret
                /\ pc' = RecordsHead(records, recIndex + 1)
        /\ errors' = errors
        /\ recIndex' = recIndex + 1
    /\ UNCHANGED <<numFns, fnIndex, records, gatherReport, ctxErr, invoked,
                   returned, observed,
                   cancelledAt, notCollectVars>>

\* lines 76-81: one record is handed to recorder.Record; a failure is
\* appended to errors and the loop goes on
Forward ==
    /\ pc = "forward"
    /\ \E res \in SinkResults :
        /\ sink' = Append(sink, [record |-> records[recIndex], err |-> res])
        /\ errors' = IF res # NoError
                     THEN Append(errors,
                              UnableToRecord(records[recIndex].Name, res.text))
                     ELSE errors
        /\ recIndex' = recIndex + 1
        /\ pc' = RecordsHead(records, recIndex + 1)
    /\ UNCHANGED <<numFns, fnIndex, records, gatherReport, ctxErr, ret,
                   invoked, returned, observed,
                   cancelledAt, notCollectVars>>

\* CheckCancel where a cancelled context ends the loop and the errors
\* gathered so far are reported as usual
CheckCancelBreak ==
    /\ pc = "check"
    /\ observed' = Append(observed, ctxErr)
    /\ IF ctxErr # NoError
       THEN pc' = "report" /\ fnIndex' = fnIndex
       ELSE pc' = LoopHead(fnIndex + 1) /\ fnIndex' = fnIndex + 1
    /\ UNCHANGED <<numFns, records, recIndex, errors, gatherReport, ctxErr,
                   ret, sink, invoked, returned,
                   cancelledAt, notCollectVars>>

\* lines 82-84: ctx.Err() is looked at after the records of the routine
CheckCancel ==
    /\ pc = "check"
    /\ observed' = Append(observed, ctxErr)
    /\ IF ctxErr # NoError
       THEN /\ ret' = ctxErr
            /\ pc' = "done"
            /\ fnIndex' = fnIndex
       ELSE /\ ret' = ret
            /\ fnIndex' = fnIndex + 1
            /\ pc' = LoopHead(fnIndex + 1)
    /\ UNCHANGED <<numFns, records, recIndex, errors, gatherReport, ctxErr,
                   sink, invoked, returned,
                   cancelledAt, notCollectVars>>

\* recordGatherReport: the Record of the report
ReportRecord(report) == [Name |-> ReportName, Item |-> report]

\* lines 87-90 and recordGatherReport: the report is handed to the sink
RecordGatherReport ==
    /\ pc = "report"
    /\ \E res \in SinkResults :
        /\ sink' = Append(sink, [record |-> ReportRecord(gatherReport),
                                 err |-> res])
        /\ errors' = IF res # NoError
                     THEN Append(errors, UnableToRecordReport(res.text))
                     ELSE errors
    /\ pc' = "return"
    /\ UNCHANGED <<numFns, fnIndex, records, recIndex, gatherReport, ctxErr,
                   ret, invoked, returned, observed,
                   cancelledAt, notCollectVars>>

\* the error of lines 92-97 without the call of uniqueStrings
AggregateErrorNoDedup(errList) ==
    IF Len(errList) > 0
    THEN Errorf(Join(SortStrings(errList), CommaSpace))
    ELSE NoError

\* lines 92-97: the error Collect returns past the loop
AggregateError(errList) ==
    IF Len(errList) > 0
    THEN Errorf(Join(uniqueStrings(SortStrings(errList)), CommaSpace))
    ELSE NoError

\* lines 92-97: when there are messages, errors is sorted in place and
\* then is what uniqueStrings returns, and their join is the error returned
Return ==
    /\ pc = "return"
    /\ ret' = AggregateError(errors)
    /\ errors' = IF Len(errors) > 0
                 THEN uniqueStrings(SortStrings(errors))
                 ELSE errors
    /\ pc' = "done"
    /\ UNCHANGED <<numFns, fnIndex, records, recIndex, gatherReport,
                   ctxErr, sink, invoked, returned, observed,
                   cancelledAt, notCollectVars>>

\* cancelledAt while the context is not cancelled
NotCancelled == [pc |-> "never"]

\* the context is cancelled by its owner while Collect runs
Cancel ==
    /\ pc # "done"
    /\ ctxErr = NoError
    /\ ctxErr' = ContextCanceled
    /\ cancelledAt' = [pc |-> pc, invoked |-> Len(invoked), sink |-> sink]
    /\ UNCHANGED <<numFns, pc, fnIndex, records, recIndex, errors,
                   gatherReport, ret, sink, invoked, returned, observed,
                   notCollectVars>>

InitCollect ==
    /\ numFns \in 0..MaxRoutines
    /\ pc = LoopHead(1)
    /\ fnIndex = 1
    /\ records = << >>
    /\ recIndex = 1
    /\ errors = << >>
    /\ gatherReport = << >>
    /\ ctxErr = NoError
    /\ ret = [kind |-> "running"]
    /\ sink = << >>
    /\ invoked = << >>
    /\ returned = << >>
    /\ observed = << >>
    /\ cancelledAt = NotCancelled

NextCollect ==
    \/ Gather
    \/ Forward
    \/ CheckCancel
    \/ RecordGatherReport
    \/ Return
    \/ Cancel

(***************************************************************************)
(* Gatherer: setClusterVersion and ClusterVersion                          *)
(***************************************************************************)
\* the goroutines calling into the Gatherer
Goroutines == {"g1", "g2", "g3"}
\* metadata.resourceVersion of a ClusterVersion
ResourceVersions == {"1", "2"}
\* spec.clusterID of a ClusterVersion
ClusterIDs == {"A", "B"}
\* *configv1.ClusterVersion values
ClusterVersions ==
    [ResourceVersion : ResourceVersions, ClusterID : ClusterIDs]
\* a nil *configv1.ClusterVersion
Nil == [nil |-> TRUE]

\* version.DeepCopy(): an object of its own, equal in every field
DeepCopy(version) == [field \in DOMAIN version |-> version[field]]

\* the condition of line 384 with the cluster IDs compared
SameVersionByClusterID(cached, version) ==
    cached # Nil /\ cached.ClusterID = version.ClusterID

\* the condition of line 384 with the comparison left out
SameVersionNever(cached, version) == FALSE

\* line 384: i.lastVersion != nil &&
\*           i.lastVersion.ResourceVersion == version.ResourceVersion
SameVersion(cached, version) ==
    cached # Nil /\ cached.ResourceVersion = version.ResourceVersion

\* a lock that never blocks
CanLockAlways == TRUE

\* sync.Mutex: Lock() returns only when nobody holds the mutex
CanLock == lock = {}

\* setClusterVersion(version) is called
CallSet(g, version) ==
    /\ callPc[g] = "idle"
    /\ callPc' = [callPc EXCEPT ![g] = "lock"]
    /\ callOp' = [callOp EXCEPT ![g] = "set"]
    /\ callArg' = [callArg EXCEPT ![g] = version]
    /\ callResult' = [callResult EXCEPT ![g] = Nil]
    /\ before' = [before EXCEPT ![g] = Nil]
    /\ outcome' = [outcome EXCEPT ![g] = "none"]
    /\ otherSince' = [otherSince EXCEPT ![g] = FALSE]
    /\ UNCHANGED <<lastVersion, lock, presented, written, installDone,
                   notCacheVars>>

\* ClusterVersion() is called
CallGet(g) ==
    /\ callPc[g] = "idle"
    /\ callPc' = [callPc EXCEPT ![g] = "lock"]
    /\ callOp' = [callOp EXCEPT ![g] = "get"]
    /\ callArg' = [callArg EXCEPT ![g] = Nil]
    /\ callResult' = [callResult EXCEPT ![g] = Nil]
    /\ before' = [before EXCEPT ![g] = Nil]
    /\ outcome' = [outcome EXCEPT ![g] = "none"]
    /\ otherSince' = [otherSince EXCEPT ![g] = FALSE]
    /\ UNCHANGED <<lastVersion, lock, presented, written, installDone,
                   notCacheVars>>

\* lines 382 and 391: i.lock.Lock()
Lock(g) ==
    /\ callPc[g] = "lock"
    /\ CanLock
    /\ lock' = lock \cup {g}
    /\ callPc' = [callPc EXCEPT ![g] =
                      IF callOp[g] = "set" THEN "compare" ELSE "read"]
    /\ before' = [before EXCEPT ![g] = lastVersion]
    /\ UNCHANGED <<lastVersion, callOp, callArg, callResult, outcome,
                   otherSince, presented, written, installDone, notCacheVars>>

\* lines 384-386: the same resourceVersion as the cached one returns
Compare(g) ==
    /\ callPc[g] = "compare"
    /\ IF SameVersion(lastVersion, callArg[g])
       THEN /\ callPc' = [callPc EXCEPT ![g] = "unlock"]
            /\ outcome' = [outcome EXCEPT ![g] = "skipped"]
       ELSE /\ callPc' = [callPc EXCEPT ![g] = "assign"]
            /\ outcome' = outcome
    /\ UNCHANGED <<lastVersion, lock, callOp, callArg, callResult, before,
                   otherSince, presented, written, installDone, notCacheVars>>

\* line 387: i.lastVersion = version.DeepCopy()
Assign(g) ==
    /\ callPc[g] = "assign"
    /\ lastVersion' = DeepCopy(callArg[g])
    /\ callPc' = [callPc EXCEPT ![g] = "unlock"]
    /\ outcome' = [outcome EXCEPT ![g] = "replaced"]
    /\ otherSince' =
           [h \in Goroutines |->
               IF /\ h # g
                  /\ callOp[h] = "set"
                  /\ callPc[h] \in {"compare", "assign", "unlock", "exit"}
                  /\ callArg[h].ResourceVersion # callArg[g].ResourceVersion
               THEN TRUE
               ELSE otherSince[h]]
    /\ written' = TRUE
    /\ installDone' = FALSE
    /\ UNCHANGED <<lock, callOp, callArg, callResult, before, presented,
                   notCacheVars>>

\* line 393: return i.lastVersion
Read(g) ==
    /\ callPc[g] = "read"
    /\ callResult' = [callResult EXCEPT ![g] = lastVersion]
    /\ callPc' = [callPc EXCEPT ![g] = "unlock"]
    /\ UNCHANGED <<lastVersion, lock, callOp, callArg, before, outcome,
                   otherSince, presented, written, installDone, notCacheVars>>

\* lines 383 and 392: the deferred i.lock.Unlock()
Unlock(g) ==
    /\ callPc[g] = "unlock"
    /\ lock' = lock \ {g}
    /\ callPc' = [callPc EXCEPT ![g] = "exit"]
    /\ presented' = IF callOp[g] = "set"
                    THEN presented \cup {callArg[g].ResourceVersion}
                    ELSE presented
    /\ installDone' = IF outcome[g] = "replaced" THEN TRUE ELSE installDone
    /\ UNCHANGED <<lastVersion, callOp, callArg, callResult, before, outcome,
                   otherSince, written, notCacheVars>>

\* the call returns to its caller
ReturnFrom(g) ==
    /\ callPc[g] = "exit"
    /\ callPc' = [callPc EXCEPT ![g] = "idle"]
    /\ callOp' = [callOp EXCEPT ![g] = "none"]
    /\ callArg' = [callArg EXCEPT ![g] = Nil]
    /\ callResult' = [callResult EXCEPT ![g] = Nil]
    /\ before' = [before EXCEPT ![g] = Nil]
    /\ outcome' = [outcome EXCEPT ![g] = "none"]
    /\ otherSince' = [otherSince EXCEPT ![g] = FALSE]
    /\ UNCHANGED <<lastVersion, lock, presented, written, installDone,
                   notCacheVars>>

\* New(client, coreClient): an empty cache, nobody calling
InitCache ==
    /\ lastVersion = Nil
    /\ lock = {}
    /\ callPc = [g \in Goroutines |-> "idle"]
    /\ callOp = [g \in Goroutines |-> "none"]
    /\ callArg = [g \in Goroutines |-> Nil]
    /\ callResult = [g \in Goroutines |-> Nil]
    /\ before = [g \in Goroutines |-> Nil]
    /\ outcome = [g \in Goroutines |-> "none"]
    /\ otherSince = [g \in Goroutines |-> FALSE]
    /\ presented = {}
    /\ written = FALSE
    /\ installDone = FALSE

NextCache ==
    \E g \in Goroutines :
        \/ \E version \in ClusterVersions : CallSet(g, version)
        \/ CallGet(g)
        \/ Lock(g)
        \/ Compare(g)
        \/ Assign(g)
        \/ Read(g)
        \/ Unlock(g)
        \/ ReturnFrom(g)


(***************************************************************************)
(* sort.Strings and uniqueStrings on their own                             *)
(***************************************************************************)
InitList ==
    /\ list \in SeqsUpTo(ListStrings, MaxListLen)
    /\ listIn = list
    /\ listPc = "given"

IdleList ==
    /\ list = << >>
    /\ listIn = << >>
    /\ listPc = "idle"

\* line 93
Sort ==
    /\ listPc = "given"
    /\ list' = SortStrings(list)
    /\ listPc' = "sorted"
    /\ UNCHANGED <<listIn, notListVars>>

\* line 94
Unique ==
    /\ listPc = "sorted"
    /\ list' = uniqueStrings(list)
    /\ listPc' = "unique"
    /\ UNCHANGED <<listIn, notListVars>>

NextList == Sort \/ Unique

(***************************************************************************)
(* Gatherer.Gather: the cluster and what its data sources answer           *)
(***************************************************************************)
\* the most pods one namespace holds
MaxPods == 1

\* "config/clusteroperator/"
ClusterOperatorPrefix == 
    <<99, 111, 110, 102, 105, 103, 47, 99, 108, 117, 115, 116, 101, 114,
      111, 112, 101, 114, 97, 116, 111, 114, 47>>
\* "config/pod/"
PodPrefix == <<99, 111, 110, 102, 105, 103, 47, 112, 111, 100, 47>>
\* "/"
Slash == <<47>>
\* "config/node/"
NodePrefix == <<99, 111, 110, 102, 105, 103, 47, 110, 111, 100, 101, 47>>
\* "config/version"
VersionName == <<99, 111, 110, 102, 105, 103, 47, 118, 101, 114, 115, 105, 111, 110>>
\* "config/id"
IDName == <<99, 111, 110, 102, 105, 103, 47, 105, 100>>
\* "config/infrastructure"
InfrastructureName ==
    <<99, 111, 110, 102, 105, 103, 47, 105, 110, 102, 114, 97, 115, 116,
      114, 117, 99, 116, 117, 114, 101>>
\* "config/network"
NetworkName ==
    <<99, 111, 110, 102, 105, 103, 47, 110, 101, 116, 119, 111, 114, 107>>
\* "config/authentication"
AuthenticationName ==
    <<99, 111, 110, 102, 105, 103, 47, 97, 117, 116, 104, 101, 110, 116,
      105, 99, 97, 116, 105, 111, 110>>
\* "config/featuregate"
FeatureGateName ==
    <<99, 111, 110, 102, 105, 103, 47, 102, 101, 97, 116, 117, 114, 101,
      103, 97, 116, 101>>
\* "config/oauth"
OAuthName ==
    <<99, 111, 110, 102, 105, 103, 47, 111, 97, 117, 116, 104>>
\* "config/ingress"
IngressName ==
    <<99, 111, 110, 102, 105, 103, 47, 105, 110, 103, 114, 101, 115, 115>>
\* "config/proxy"
ProxyName ==
    <<99, 111, 110, 102, 105, 103, 47, 112, 114, 111, 120, 121>>
\* the names of the Records of the last seven routines, in their order in
\* bulkFns
ConfigNames ==
    <<InfrastructureName, NetworkName, AuthenticationName, FeatureGateName,
      OAuthName, IngressName, ProxyName>>

\* fmt.Sprintf("config/clusteroperator/%s", name)
ClusterOperatorRecordName(name) == ClusterOperatorPrefix \o name
\* fmt.Sprintf("config/pod/%s/%s", namespace, name)
PodRecordName(namespace, name) == PodPrefix \o namespace \o Slash \o name
\* fmt.Sprintf("config/node/%s", name)
NodeRecordName(name) == NodePrefix \o name

\* "a", "b": the cluster operators the cluster may hold, in the order List
\* returns them
OperatorNames == << <<97>>, <<98>> >>
\* "n1", "n2": the namespaces of the cluster
NamespaceNames == { <<110, 49>>, <<110, 50>> }
\* "p", "q": the pods of a namespace, in the order List returns them
PodNames == << <<112>>, <<113>> >>
\* "m", "n": the nodes of the cluster, in the order List returns them
NodeNames == << <<109>>, <<110>> >>

\* errors of the API: one that errors.IsNotFound accepts, one that it
\* does not
NotFoundError == [kind |-> "NotFound"]
ServerError == [kind |-> "InternalError"]
\* what a List or Get call returns as its error
CallErrors == {NoError, NotFoundError, ServerError}

\* errors.IsNotFound(err)
IsNotFound(err) == err = NotFoundError

\* a condition of a cluster operator or of a node
Condition(type, status) == [Type |-> type, Status |-> status]
\* a related object of a cluster operator
ObjectReference(resource, name) == [Resource |-> resource, Name |-> name]

\* status.conditions of the cluster operators
OperatorConditionLists ==
    { << >>,
      <<Condition("Degraded", "True")>>,
      <<Condition("Available", "True"), Condition("Degraded", "False")>>,
      <<Condition("Degraded", "False"), Condition("Available", "False")>>,
      <<Condition("Degraded", "Unknown"), Condition("Available", "Unknown")>> }

\* status.relatedObjects of the cluster operators
RelatedObjectLists ==
    { << >>,
      <<ObjectReference("namespaces", <<110, 49>>)>>,
      <<ObjectReference("namespaces", <<110, 49>>),
        ObjectReference("namespaces", <<110, 49>>)>>,
      <<ObjectReference("configmaps", <<110, 49>>),
        ObjectReference("namespaces", <<110, 50>>)>> }

\* status.relatedObjects of the cluster operators after the first: none,
\* or one namespace
LaterRelatedObjectLists ==
    { << >>,
      <<ObjectReference("namespaces", <<110, 49>>)>>,
      <<ObjectReference("configmaps", <<110, 49>>),
        ObjectReference("namespaces", <<110, 50>>)>> }

\* the lists that hold the first elements of names
Prefixes(names) == {SubSeq(names, 1, n) : n \in 0..Len(names)}

\* the lists of configv1.ClusterOperator the cluster may hold
ClusterOperatorLists ==
    UNION {{[i \in 1..Len(names) |->
                [Name |-> names[i],
                 Conditions |-> status[i].Conditions,
                 RelatedObjects |-> status[i].RelatedObjects]] :
            status \in {f \in [1..Len(names) ->
                                   [Conditions : OperatorConditionLists,
                                    RelatedObjects : RelatedObjectLists]] :
                            \A i \in 2..Len(names) :
                                f[i].RelatedObjects
                                    \in LaterRelatedObjectLists}} :
           names \in Prefixes(OperatorNames)}

\* a nil *ContainerStateTerminated, and one with its exit code
NotTerminated == [terminated |-> FALSE]
Terminated(exitCode) == [terminated |-> TRUE, ExitCode |-> exitCode]
\* a corev1.ContainerStatus
ContainerStatus(state, lastState) ==
    [State |-> state, LastTerminationState |-> lastState]

\* status of the pods: phase, init container statuses, container statuses
PodStatuses ==
    { [Phase |-> "Running",
       InitContainerStatuses |->
           <<ContainerStatus(Terminated(0), NotTerminated)>>,
       ContainerStatuses |->
           <<ContainerStatus(NotTerminated, Terminated(0))>>],
      [Phase |-> "Pending", InitContainerStatuses |-> << >>,
       ContainerStatuses |-> << >>],
      [Phase |-> "Running",
       InitContainerStatuses |->
           <<ContainerStatus(NotTerminated, Terminated(-1))>>,
       ContainerStatuses |-> << >>],
      [Phase |-> "Failed", InitContainerStatuses |-> << >>,
       ContainerStatuses |->
           <<ContainerStatus(NotTerminated, NotTerminated),
             ContainerStatus(Terminated(137), Terminated(0))>>] }

\* the lists of corev1.Pod a namespace may hold
PodLists(namespace) ==
    UNION {{[i \in 1..n |->
                [Namespace |-> namespace,
                 Name |-> PodNames[i],
                 Status |-> status[i]]] :
            status \in [1..n -> PodStatuses]} :
           n \in 0..MaxPods}

\* status.conditions of the nodes
NodeConditionLists ==
    { << >>,
      <<Condition("Ready", "True")>>,
      <<Condition("Ready", "False")>>,
      <<Condition("MemoryPressure", "False"), Condition("Ready", "Unknown")>>,
      <<Condition("MemoryPressure", "True"), Condition("Ready", "True")>> }

\* the lists of corev1.Node the cluster may hold
NodeLists ==
    UNION {{[i \in 1..Len(names) |->
                [Name |-> names[i], Conditions |-> conditions[i]]] :
            conditions \in [1..Len(names) -> NodeConditionLists]} :
           names \in Prefixes(NodeNames)}

\* what a List call answers: the list with a nil error, or an empty list
\* with an error
ListAnswers(lists) ==
    {[err |-> NoError, Items |-> items] : items \in lists}
        \cup {[err |-> e, Items |-> << >>] : e \in CallErrors \ {NoError}}

\* what a Get call answers: the object with a nil error, or an error
GetAnswers(objects) ==
    {[err |-> NoError, object |-> o] : o \in objects}
        \cup {[err |-> e, object |-> Nil] : e \in CallErrors \ {NoError}}

\* the cluster singletons the last seven routines fetch, in their order
\* in bulkFns
ConfigKinds ==
    <<"Infrastructure", "Network", "Authentication", "FeatureGate", "OAuth",
      "Ingress", "Proxy">>

(***************************************************************************)
(* Gatherer.Gather: the health predicates and the gather routines          *)
(***************************************************************************)
\* isHealthyOperator: false when some condition is Degraded=True or
\* Available=False
isHealthyOperator(operator) ==
    ~\E i \in 1..Len(operator.Conditions) :
        \/ /\ operator.Conditions[i].Type = "Degraded"
           /\ operator.Conditions[i].Status = "True"
        \/ /\ operator.Conditions[i].Type = "Available"
           /\ operator.Conditions[i].Status = "False"

\* the loop of namespacesForOperator over the related objects
RECURSIVE namespacesOf(_)
namespacesOf(refs) ==
    IF refs = << >> THEN << >>
    ELSE (IF Head(refs).Resource = "namespaces"
          THEN <<Head(refs).Name>>
          ELSE << >>) \o namespacesOf(Tail(refs))

\* namespacesForOperator: the names of the related objects of resource
\* "namespaces", in order, repetitions kept
namespacesForOperator(operator) == namespacesOf(operator.RelatedObjects)

\* isHealthyNode where a node without a Ready condition is unhealthy too
isHealthyNodeNeedsReady(node) ==
    \E i \in 1..Len(node.Conditions) :
        /\ node.Conditions[i].Type = "Ready"
        /\ node.Conditions[i].Status = "True"

\* isHealthyNode: false when some condition is Ready with a status other
\* than True
isHealthyNode(node) ==
    ~\E i \in 1..Len(node.Conditions) :
        /\ node.Conditions[i].Type = "Ready"
        /\ node.Conditions[i].Status # "True"

\* lines 363-368 and 371-376: the container terminated, now or the last
\* time, with an exit code other than 0
FailedContainer(status) ==
    \/ /\ status.LastTerminationState.terminated
       /\ status.LastTerminationState.ExitCode # 0
    \/ /\ status.State.terminated
       /\ status.State.ExitCode # 0

\* isHealthyPod with the init containers left out
isHealthyPodSkipsInit(pod) ==
    /\ pod.Status.Phase # "Pending"
    /\ \A i \in 1..Len(pod.Status.ContainerStatuses) :
           ~FailedContainer(pod.Status.ContainerStatuses[i])

\* isHealthyPod: false for a Pending pod and for a pod with a failed init
\* container or container
isHealthyPod(pod) ==
    /\ pod.Status.Phase # "Pending"
    /\ \A i \in 1..Len(pod.Status.InitContainerStatuses) :
           ~FailedContainer(pod.Status.InitContainerStatuses[i])
    /\ \A i \in 1..Len(pod.Status.ContainerStatuses) :
           ~FailedContainer(pod.Status.ContainerStatuses[i])

\* a record.Record; the Item names its anonymizer and the object it wraps
Record(name, anonymizer, object) ==
    [Name |-> name, Item |-> [anonymizer |-> anonymizer, object |-> object]]

\* what a gather routine returns
Returns(recs, errs) == [records |-> recs, errs |-> errs]

\* OperatorRecords with the healthy cluster operators left out
RECURSIVE OperatorRecordsUnhealthyOnly(_)
OperatorRecordsUnhealthyOnly(items) ==
    IF items = << >> THEN << >>
    ELSE (IF isHealthyOperator(Head(items))
          THEN << >>
          ELSE <<Record(ClusterOperatorRecordName(Head(items).Name),
                        "ClusterOperatorAnonymizer", Head(items))>>)
             \o OperatorRecordsUnhealthyOnly(Tail(items))

\* lines 63-65: one Record for each listed cluster operator
RECURSIVE OperatorRecords(_)
OperatorRecords(items) ==
    IF items = << >> THEN << >>
    ELSE <<Record(ClusterOperatorRecordName(Head(items).Name),
                  "ClusterOperatorAnonymizer", Head(items))>>
             \o OperatorRecords(Tail(items))

\* lines 76-81: one Record for each listed pod that is not healthy
RECURSIVE PodRecords(_)
PodRecords(items) ==
    IF items = << >> THEN << >>
    ELSE (IF isHealthyPod(Head(items))
          THEN << >>
          ELSE <<Record(PodRecordName(Head(items).Namespace,
                                      Head(items).Name),
                        "PodAnonymizer", Head(items))>>)
             \o PodRecords(Tail(items))

\* lines 71-82: the pods of each namespace are listed, one call for each
\* element of namespaces, which pods answers in turn; a failure of the
\* call is logged and the loop over the (empty) list goes on
RECURSIVE PodRecordsOfNamespaces(_, _)
PodRecordsOfNamespaces(namespaces, pods) ==
    IF namespaces = << >> THEN << >>
    ELSE PodRecords(Head(pods).Items)
             \o PodRecordsOfNamespaces(Tail(namespaces), Tail(pods))

\* lines 67-83: the namespaces of each cluster operator that is not
\* healthy; pods holds the answers to the calls still to be made
RECURSIVE PodRecordsOfOperators(_, _)
PodRecordsOfOperators(items, pods) ==
    IF items = << >> THEN << >>
    ELSE IF isHealthyOperator(Head(items))
    THEN PodRecordsOfOperators(Tail(items), pods)
    ELSE LET namespaces == namespacesForOperator(Head(items))
         IN  PodRecordsOfNamespaces(namespaces,
                                    SubSeq(pods, 1, Len(namespaces)))
                 \o PodRecordsOfOperators(
                        Tail(items),
                        SubSeq(pods, Len(namespaces) + 1, Len(pods)))

\* the namespaces of the calls Pods(namespace).List the routine makes, in
\* the order it makes them: one call for each namespace of each cluster
\* operator that is not healthy, repetitions included
RECURSIVE PodListCalls(_)
PodListCalls(items) ==
    IF items = << >> THEN << >>
    ELSE (IF isHealthyOperator(Head(items))
          THEN << >>
          ELSE namespacesForOperator(Head(items)))
             \o PodListCalls(Tail(items))

\* what the calls Pods(namespace).List may be answered, call by call: each
\* call is a request of its own
RECURSIVE PodListAnswers(_)
PodListAnswers(calls) ==
    IF calls = << >> THEN {<< >>}
    ELSE {<<[Namespace |-> Head(calls), err |-> answer.err,
             Items |-> answer.Items]>> \o rest :
          answer \in ListAnswers(PodLists(Head(calls))),
          rest \in PodListAnswers(Tail(calls))}

\* lines 54-86: the routine of the cluster operators and their pods
gatherClusterOperators(answer) ==
    IF IsNotFound(answer.operators.err) THEN Returns(<< >>, << >>)
    ELSE IF answer.operators.err # NoError
    THEN Returns(<< >>, <<answer.operators.err>>)
    ELSE Returns(OperatorRecords(answer.operators.Items)
                     \o PodRecordsOfOperators(answer.operators.Items,
                                              answer.pods),
                 << >>)

\* lines 93-98: one Record for each listed node that is not healthy
RECURSIVE NodeRecords(_)
NodeRecords(items) ==
    IF items = << >> THEN << >>
    ELSE (IF isHealthyNode(Head(items))
          THEN << >>
          ELSE <<Record(NodeRecordName(Head(items).Name),
                        "NodeAnonymizer", Head(items))>>)
             \o NodeRecords(Tail(items))

\* lines 87-101: the routine of the nodes
gatherNodes(answer) ==
    IF answer.err # NoError THEN Returns(<< >>, <<answer.err>>)
    ELSE Returns(NodeRecords(answer.Items), << >>)

\* setClusterVersion as one step: the cached object after the call
setClusterVersion(cached, version) ==
    IF SameVersion(cached, version) THEN cached ELSE DeepCopy(version)

\* gatherClusterVersion emptying the cache when the fetch fails
gatherClusterVersionClearsOnError(answer, cached) ==
    IF IsNotFound(answer.err)
    THEN [returns |-> Returns(<< >>, << >>), lastVersion |-> cached]
    ELSE IF answer.err # NoError
    THEN [returns |-> Returns(<< >>, <<answer.err>>), lastVersion |-> Nil]
    ELSE [returns |-> Returns(<<Record(VersionName,
                                       "ClusterVersionAnonymizer",
                                       answer.object)>>, << >>),
          lastVersion |-> setClusterVersion(cached, answer.object)]

\* lines 102-112: the routine of the cluster version, and the cached
\* object it leaves
gatherClusterVersion(answer, cached) ==
    IF IsNotFound(answer.err)
    THEN [returns |-> Returns(<< >>, << >>), lastVersion |-> cached]
    ELSE IF answer.err # NoError
    THEN [returns |-> Returns(<< >>, <<answer.err>>), lastVersion |-> cached]
    ELSE [returns |-> Returns(<<Record(VersionName,
                                       "ClusterVersionAnonymizer",
                                       answer.object)>>, << >>),
          lastVersion |-> setClusterVersion(cached, answer.object)]

\* lines 113-119: the routine of the cluster ID; ClusterVersion() returns
\* the cached object
gatherClusterID(cached) ==
    IF cached = Nil THEN Returns(<< >>, << >>)
    ELSE Returns(<<Record(IDName, "Raw", cached.ClusterID)>>, << >>)

\* the anonymizers wrapping the objects of the last seven routines
ConfigAnonymizers ==
    <<"InfrastructureAnonymizer", "Anonymizer", "Anonymizer",
      "FeatureGateAnonymizer", "Anonymizer", "IngressAnonymizer",
      "ProxyAnonymizer">>

\* gatherConfig without the errors.IsNotFound case
gatherConfigNotFoundFails(k, answer) ==
    IF answer.err # NoError THEN Returns(<< >>, <<answer.err>>)
    ELSE Returns(<<Record(ConfigNames[k], ConfigAnonymizers[k],
                          answer.object)>>, << >>)

\* lines 120-189: the routine of the k-th cluster singleton
gatherConfig(k, answer) ==
    IF IsNotFound(answer.err) THEN Returns(<< >>, << >>)
    ELSE IF answer.err # NoError THEN Returns(<< >>, <<answer.err>>)
    ELSE Returns(<<Record(ConfigNames[k], ConfigAnonymizers[k],
                          answer.object)>>, << >>)

(***************************************************************************)
(* Gatherer.Gather: batches                                                *)
(*                                                                         *)
(* One step is one turn of the loop of Collect over bulkFns: the routine   *)
(* is invoked, each of its Records is handed to the sink, and ctx.Err()    *)
(* is looked at.  What the sink answers and what Collect returns are       *)
(* modelled with Collect above.                                            *)
(***************************************************************************)
\* the cluster version objects the API returns
FetchedVersions == ClusterVersions
\* the number of routines Gather hands to Collect
NumRoutines == 4 + Len(ConfigNames)

\* the names of recs, in order
NamesOf(recs) == [j \in 1..Len(recs) |-> recs[j].Name]

\* before the first call of Gather
NoAnswer == [err |-> [kind |-> "no call"]]
NotRun == [records |-> << >>, errs |-> << >>, run |-> FALSE]

\* the histories of a run, of which one is kept
Histories == {"answers", "names", "version"}
\* a history variable after a step that gives it the value new
Keep(history, new, old) == IF kept = history THEN new ELSE old

\* line 67 of Collect for the routine just invoked: what it was answered
\* and what it returned
Invoked(answer, returns) ==
    /\ lastIn' = Keep("answers", answer, lastIn)
    /\ lastOut' = Keep("answers", returns, lastOut)
    /\ gNames' = NamesOf(returns.records)
    /\ gPc' = "forward"
    /\ UNCHANGED <<kept, gIndex, gCancelled, forwarded, cachedAtStart>>

\* i.Gather(ctx, recorder) is called
StartGather ==
    /\ gPc \in {"idle", "returned"}
    /\ gPc' = "running"
    /\ gIndex' = 1
    /\ gCancelled' = FALSE
    /\ forwarded' = << >>
    /\ fetched' = NoAnswer
    /\ idOut' = NotRun
    /\ cachedAtStart' = Keep("version", lastVersion, cachedAtStart)
    /\ UNCHANGED <<kept, gNames, lastIn, lastOut, lastVersion, everFetched,
                   notGatherVars>>

\* the first routine: cluster operators and the pods of the unhealthy
\* ones; the data sources answer the listing of the cluster operators and
\* then each listing of pods the routine asks for
RunClusterOperators ==
    /\ gPc = "running"
    /\ gIndex = 1
    /\ \E operators \in ListAnswers(ClusterOperatorLists) :
        \E pods \in PodListAnswers(PodListCalls(operators.Items)) :
            LET answer == [operators |-> operators, pods |-> pods]
            IN  Invoked(answer, gatherClusterOperators(answer))
    /\ UNCHANGED <<fetched, idOut, everFetched, lastVersion, notGatherVars>>

\* the second routine: nodes
RunNodes ==
    /\ gPc = "running"
    /\ gIndex = 2
    /\ \E answer \in ListAnswers(NodeLists) :
           Invoked(answer, gatherNodes(answer))
    /\ UNCHANGED <<fetched, idOut, everFetched, lastVersion, notGatherVars>>

\* the third routine: the cluster version, which it caches
RunClusterVersion ==
    /\ gPc = "running"
    /\ gIndex = 3
    /\ \E answer \in GetAnswers(FetchedVersions) :
           LET result == gatherClusterVersion(answer, lastVersion)
           IN  /\ Invoked(answer, result.returns)
               /\ lastVersion' = result.lastVersion
               /\ fetched' = Keep("version", answer, fetched)
               /\ everFetched' = Keep("version",
                                       everFetched \/ answer.err = NoError,
                                       everFetched)
    /\ UNCHANGED <<idOut, notGatherVars>>

\* the fourth routine: the cluster ID of the cached cluster version
RunClusterID ==
    /\ gPc = "running"
    /\ gIndex = 4
    /\ LET returns == gatherClusterID(lastVersion)
       IN  /\ Invoked(NoAnswer, returns)
           /\ idOut' = Keep("version", returns, idOut)
    /\ UNCHANGED <<fetched, everFetched, lastVersion, notGatherVars>>

\* the fifth to the eleventh routine: the cluster singletons
RunConfig ==
    /\ gPc = "running"
    /\ gIndex \in 5..NumRoutines
    /\ \E answer \in GetAnswers({[kind |-> ConfigKinds[gIndex - 4]]}) :
           Invoked(answer, gatherConfig(gIndex - 4, answer))
    /\ UNCHANGED <<fetched, idOut, everFetched, lastVersion, notGatherVars>>

\* lines 76-84 of Collect: the Records of the routine are handed to the
\* sink, then ctx.Err() is looked at; the owner of the context may have
\* cancelled it by then, which ends the call
ForwardGathered ==
    /\ gPc = "forward"
    /\ forwarded' = Keep("names", forwarded \o gNames, forwarded)
    /\ gNames' = << >>
    /\ lastIn' = NoAnswer
    /\ lastOut' = NotRun
    /\ \E cancelled \in BOOLEAN :
        /\ gCancelled' = cancelled
        /\ IF cancelled
           THEN gPc' = "returned" /\ gIndex' = gIndex
           ELSE gPc' = "running" /\ gIndex' = gIndex + 1
    /\ UNCHANGED <<kept, fetched, idOut, cachedAtStart, everFetched,
                   lastVersion, notGatherVars>>

\* lines 87-98 of Collect: past the loop the report is handed to the sink
\* and Collect returns
FinishGather ==
    /\ gPc = "running"
    /\ gIndex = NumRoutines + 1
    /\ forwarded' = Keep("names", Append(forwarded, ReportName), forwarded)
    /\ gPc' = "returned"
    /\ UNCHANGED <<kept, gNames, gIndex, gCancelled, lastIn, lastOut,
                   fetched, idOut, cachedAtStart, everFetched, lastVersion,
                   notGatherVars>>

\* a Gatherer from New(), Gather not yet called
InitGather ==
    /\ kept \in Histories
    /\ gPc = "idle"
    /\ gNames = << >>
    /\ gIndex = 1
    /\ gCancelled = FALSE
    /\ forwarded = << >>
    /\ lastIn = NoAnswer
    /\ lastOut = NotRun
    /\ fetched = NoAnswer
    /\ idOut = NotRun
    /\ cachedAtStart = Nil
    /\ everFetched = FALSE

\* Gather is never called
IdleGather ==
    /\ kept = "answers"
    /\ gPc = "idle"
    /\ gNames = << >>
    /\ gIndex = 1
    /\ gCancelled = FALSE
    /\ forwarded = << >>
    /\ lastIn = NoAnswer
    /\ lastOut = NotRun
    /\ fetched = NoAnswer
    /\ idOut = NotRun
    /\ cachedAtStart = Nil
    /\ everFetched = FALSE

NextGather ==
    \/ StartGather
    \/ RunClusterOperators
    \/ RunNodes
    \/ RunClusterVersion
    \/ RunClusterID
    \/ RunConfig
    \/ ForwardGathered
    \/ FinishGather


(***************************************************************************)
(* anonymizeNode                                                           *)
(***************************************************************************)
\* the most annotations, and the most labels, a node carries
MaxKeys == 2

\* "openshift.io/", "k8s.io/", "kubernetes.io/"
OpenshiftIo == <<111, 112, 101, 110, 115, 104, 105, 102, 116, 46, 105, 111, 47>>
K8sIo == <<107, 56, 115, 46, 105, 111, 47>>
KubernetesIo == <<107, 117, 98, 101, 114, 110, 101, 116, 101, 115, 46, 105, 111, 47>>
\* "x"
Placeholder == <<120>>

\* the keys of annotations and labels: "a.openshift.io/b", "k8s.io/c",
\* "kubernetes.io/", "kubernetes.io", "zone"
NodeKeys ==
    { 
    <<97, 46, 111, 112, 101, 110, 115, 104, 105, 102, 116, 46, 105, 111,
      47, 98>>,
      <<107, 56, 115, 46, 105, 111, 47, 99>>,
      <<107, 117, 98, 101, 114, 110, 101, 116, 101, 115, 46, 105, 111, 47>>,
      <<107, 117, 98, 101, 114, 110, 101, 116, 101, 115, 46, 105, 111>>,
      <<122, 111, 110, 101>> }
\* the values of annotations: "", "a"
AnnotationValues == { << >>, <<97>> }
\* the values of labels: "", "a", "bc"
LabelValues == { << >>, <<97>>, <<98, 99>> }
\* the addresses of a node: "", "h"
NodeAddresses == { << >>, <<104>> }
\* status.nodeInfo: bootID, systemUUID, machineID
NodeInfos ==
    { [BootID |-> << >>, SystemUUID |-> << >>, MachineID |-> << >>],
      [BootID |-> <<98>>, SystemUUID |-> <<117, 117>>, MachineID |-> <<109, 109, 109>>] }
\* status.images: none, or one image "i"
ImageLists == { << >>, << <<105>> >> }

\* map[string]string with at most MaxKeys keys
StringMaps(values) ==
    UNION {[keys -> values] :
           keys \in {k \in SUBSET NodeKeys : Cardinality(k) <= MaxKeys}}

\* the nodes handed to the anonymizer
Nodes ==
    [Annotations : StringMaps(AnnotationValues),
     Labels : StringMaps(LabelValues),
     Addresses : {<<a>> : a \in NodeAddresses} \cup {<< >>},
     NodeInfo : NodeInfos,
     Images : ImageLists]

\* strings.Contains(s, substr)
Contains(s, substr) ==
    \E i \in 0..(Len(s) - Len(substr)) :
        SubSeq(s, i + 1, i + Len(substr)) = substr

\* isProductNamespacedKey without the "k8s.io/" case
isProductNamespacedKeyNoK8s(key) ==
    Contains(key, OpenshiftIo) \/ Contains(key, KubernetesIo)

\* isProductNamespacedKey
isProductNamespacedKey(key) ==
    Contains(key, OpenshiftIo) \/ Contains(key, K8sIo)
        \/ Contains(key, KubernetesIo)

\* anonymizeString: strings.Repeat("x", len(s))
anonymizeString(s) == [i \in 1..Len(s) |-> Placeholder[1]]

\* anonymizeURL: urlhash.HashURL(s), a token that stands for s; the empty
\* string stays empty
anonymizeURL(s) == IF s = << >> THEN << >> ELSE <<[hashOf |-> s]>>

\* anonymizeNode: the node after the call
anonymizeNode(n) ==
    [Annotations |->
         [k \in DOMAIN n.Annotations |->
             IF isProductNamespacedKey(k) THEN n.Annotations[k] ELSE << >>],
     Labels |->
         [k \in DOMAIN n.Labels |->
             IF isProductNamespacedKey(k)
             THEN n.Labels[k]
             ELSE anonymizeString(n.Labels[k])],
     Addresses |->
         [i \in 1..Len(n.Addresses) |-> anonymizeURL(n.Addresses[i])],
     NodeInfo |->
         [BootID |-> anonymizeString(n.NodeInfo.BootID),
          SystemUUID |-> anonymizeString(n.NodeInfo.SystemUUID),
          MachineID |-> anonymizeString(n.NodeInfo.MachineID)],
     Images |-> << >>]

\* NodeAnonymizer.Marshal: the node is anonymized in place before it is
\* encoded
MarshalNode ==
    /\ nodePc = "given"
    /\ aNode' = anonymizeNode(aNode)
    /\ nodePc' = "anonymized"
    /\ UNCHANGED <<nodeIn, notNodeVars>>

InitNode ==
    /\ aNode \in Nodes
    /\ nodeIn = aNode
    /\ nodePc = "given"

\* no node is anonymized
IdleNode ==
    /\ aNode = << >>
    /\ nodeIn = << >>
    /\ nodePc = "idle"

NextNode == MarshalNode


(***************************************************************************)
(* The cluster version objects: the fetched, the cached, the returned      *)
(***************************************************************************)
\* the most ClusterVersion objects allocated
MaxObjects == 6

\* a nil pointer
NilAt == 0
\* spec.upstream of a ClusterVersion: "", "u"
Upstreams == { << >>, <<117>> }
\* the objects ClusterVersions().Get returns
VersionObjects ==
    [ResourceVersion : ResourceVersions, ClusterID : ClusterIDs,
     Upstream : Upstreams]

\* the object a pointer points at
ObjectAt(h, at) == IF at = NilAt THEN Nil ELSE h[at]

\* setClusterVersion storing the pointer it is given
setClusterVersionAtNoCopy(h, cached, version) ==
    IF SameVersion(ObjectAt(h, cached), h[version])
    THEN [heap |-> h, cached |-> cached]
    ELSE [heap |-> h, cached |-> version]

\* setClusterVersion(version) on pointers: the heap and i.lastVersion after
\* the call; the copy is a new object
setClusterVersionAt(h, cached, version) ==
    IF SameVersion(ObjectAt(h, cached), h[version])
    THEN [heap |-> h, cached |-> cached]
    ELSE [heap |-> Append(h, DeepCopy(h[version])), cached |-> Len(h) + 1]

\* lines 102-112 when Get succeeds: the fetched object is a new one, the
\* cache is set from it and the Record holds the pointer to it
FetchVersion ==
    /\ Len(heap) + 2 <= MaxObjects
    /\ \E object \in VersionObjects :
        LET config == Len(heap) + 1
            after == setClusterVersionAt(Append(heap, object), cachedAt,
                                         config)
        IN  /\ heap' = after.heap
            /\ cachedAt' = after.cached
            /\ pending' = pending \cup {config}
            /\ wrapped' = wrapped \cup {config}
            /\ installed' =
                   IF after.cached = cachedAt THEN installed
                   ELSE installed \cup
                            {[at |-> after.cached,
                              seen |-> after.heap[after.cached]]}
    /\ UNCHANGED <<handedOut, notAliasVars>>

\* ClusterVersionAnonymizer.Marshal: spec.upstream of the object the Record
\* holds is overwritten, then the object is encoded
MarshalVersion ==
    /\ \E at \in pending :
        /\ heap' = [heap EXCEPT ![at].Upstream = anonymizeURL(@)]
        /\ pending' = pending \ {at}
    /\ UNCHANGED <<cachedAt, wrapped, handedOut, installed, notAliasVars>>

\* ClusterVersion(): the caller gets i.lastVersion, the pointer itself
ReadVersion ==
    /\ cachedAt # NilAt
    /\ handedOut' =
           handedOut \cup {[at |-> cachedAt, seen |-> heap[cachedAt]]}
    /\ UNCHANGED <<heap, cachedAt, pending, wrapped, installed, notAliasVars>>

\* a Gatherer from New(): no object yet, i.lastVersion nil
InitAlias ==
    /\ heap = << >>
    /\ cachedAt = NilAt
    /\ pending = {}
    /\ wrapped = {}
    /\ handedOut = {}
    /\ installed = {}

NextAlias ==
    \/ FetchVersion
    \/ MarshalVersion
    \/ ReadVersion


(***************************************************************************)
(* Specifications                                                          *)
(***************************************************************************)
\* a call of Collect, nothing else going on
InitOfCollect ==
    InitCollect /\ IdleList /\ InitCache /\ IdleGather /\ IdleNode /\ InitAlias

SpecCollect == InitOfCollect /\ [][NextCollect]_vars

IdleCollect ==
    /\ numFns = 0
    /\ pc = "done"
    /\ fnIndex = 1
    /\ records = << >>
    /\ recIndex = 1
    /\ errors = << >>
    /\ gatherReport = << >>
    /\ ctxErr = NoError
    /\ ret = NoError
    /\ sink = << >>
    /\ invoked = << >>
    /\ returned = << >>
    /\ observed = << >>
    /\ cancelledAt = NotCancelled

\* a list to sort and deduplicate, nothing else going on
InitOfList ==
    InitList /\ IdleCollect /\ InitCache /\ IdleGather /\ IdleNode /\ InitAlias

SpecList == InitOfList /\ [][NextList]_vars

\* goroutines calling setClusterVersion and ClusterVersion, nothing else
\* going on
InitOfCache ==
    InitCache /\ IdleCollect /\ IdleList /\ IdleGather /\ IdleNode /\ InitAlias

SpecCache == InitOfCache /\ [][NextCache]_vars

\* calls of Gather one after the other on one Gatherer, nothing else going
\* on
InitOfGather ==
    InitGather /\ InitCache /\ IdleCollect /\ IdleList /\ IdleNode /\ InitAlias

SpecGather == InitOfGather /\ [][NextGather]_vars

\* a node to anonymize, nothing else going on
InitOfNode ==
    InitNode /\ InitCache /\ IdleCollect /\ IdleList /\ IdleGather
        /\ InitAlias

SpecNode == InitOfNode /\ [][NextNode]_vars

\* the cluster version objects of a Gatherer, nothing else going on
InitOfAlias ==
    InitAlias /\ InitCache /\ IdleCollect /\ IdleList /\ IdleGather
        /\ IdleNode

SpecAlias == InitOfAlias /\ [][NextAlias]_vars

(***************************************************************************)
(* Properties of Collect                                                   *)
(***************************************************************************)
\* s comes before t in lexicographic order: they agree on the first k bytes
\* and then s ends or has the smaller byte
LexLess(s, t) ==
    \E k \in 0..Len(s) :
        /\ k <= Len(t)
        /\ SubSeq(s, 1, k) = SubSeq(t, 1, k)
        /\ \/ k = Len(s) /\ k < Len(t)
           \/ k < Len(s) /\ k < Len(t) /\ s[k + 1] < t[k + 1]

\* the strings of the set S, each once, in ascending lexicographic order
RECURSIVE AscendingSeq(_)
AscendingSeq(S) ==
    IF S = {} THEN << >>
    ELSE LET m == CHOOSE x \in S : \A y \in S \ {x} : LexLess(x, y)
         IN  <<m>> \o AscendingSeq(S \ {m})

\* the elements of a sequence
Range(seq) == {seq[i] : i \in 1..Len(seq)}

\* the Records the invoked routines returned, in routine order and then in
\* the order each routine returned them
RECURSIVE ReturnedRecords(_)
ReturnedRecords(outs) ==
    IF outs = << >> THEN << >>
    ELSE Head(outs).records \o ReturnedRecords(Tail(outs))

\* the calls of the sink for gathered Records, and for the report
GatheredCalls == {i \in 1..Len(sink) : sink[i].record.Name # ReportName}
ReportCalls == {i \in 1..Len(sink) : sink[i].record.Name = ReportName}

\* ctx.Err() returned nil at every check so far
NeverObserved == \A i \in 1..Len(observed) : observed[i] = NoError

\* Collect has returned, and not because of a cancellation it observed
ReturnedUncancelled == pc = "done" /\ NeverObserved

\* the messages Collect came across: the errors the routines returned and
\* the failures of the sink, for gathered Records and for the report
RoutineMessages ==
    UNION {Range(returned[i].errs) : i \in 1..Len(returned)}
RecordMessages ==
    {UnableToRecord(sink[i].record.Name, sink[i].err.text) :
        i \in {j \in GatheredCalls : sink[j].err # NoError}}
ReportMessages ==
    {UnableToRecordReport(sink[i].err.text) :
        i \in {j \in ReportCalls : sink[j].err # NoError}}
AllMessages == RoutineMessages \cup RecordMessages \cup ReportMessages

\* how often pat occurs in text
Occurrences(pat, text) ==
    Cardinality({i \in 1..(Len(text) - Len(pat) + 1) :
                    SubSeq(text, i, i + Len(pat) - 1) = pat})

\* the number of "unable to record <name>: ..." messages in an error text:
\* those of the report are "unable to record io status reports: ..."
RecordMessagesIn(text) ==
    Occurrences(UnableToRecordPrefix, text)
        - Occurrences(UnableToRecordReportPrefix, text)

\* C1: in a run of Collect in which no check saw the context cancelled, the
\* routines are invoked one after the other in the given order, each once,
\* and all of them by the time Collect returns, whatever errors the routines
\* returned and whichever calls of the sink failed.
C1_AllRoutinesInvokedInOrder ==
    /\ invoked = [i \in 1..Len(invoked) |-> i]
    /\ Len(invoked) <= numFns
    /\ ReturnedUncancelled => Len(invoked) = numFns

\* a run to the end where the first routine returned an error and a Record
\* the sink refused, and the second routine was invoked all the same
C1_Witness ==
    /\ ReturnedUncancelled
    /\ numFns = 2
    /\ invoked = <<1, 2>>
    /\ returned[1].errs # << >>
    /\ Len(returned[1].records) = 1
    /\ sink[1].err # NoError

\* C2: in a run in which no check saw the context cancelled, the sink is
\* called once for each Record the routines returned, in routine order and
\* then in the order the routine returned them, and then once, as the last
\* call, for the report Record; this holds whichever calls failed and
\* whatever Collect returns.
C2_SinkReceivesEveryRecordThenReport ==
    /\ \A i \in GatheredCalls :
           i <= Len(ReturnedRecords(returned))
           /\ sink[i].record = ReturnedRecords(returned)[i]
    /\ ReturnedUncancelled =>
           /\ Len(sink) = Len(ReturnedRecords(returned)) + 1
           /\ GatheredCalls = 1..(Len(sink) - 1)
           /\ ReportCalls = {Len(sink)}

\* a run that returned an error, in which two Records were returned in the
\* order "b", "a", the first was refused, and the sink got them and the
\* report
C2_Witness ==
    /\ ReturnedUncancelled
    /\ ret.kind = "fmt.Errorf"
    /\ Len(sink) = 3
    /\ sink[1].record.Name = <<98>>
    /\ sink[2].record.Name = <<97>>
    /\ sink[1].err # NoError
    /\ sink[3].record.Name = ReportName

\* C3: if ctx.Err() is not nil at the check after routine k, Collect
\* returns that error itself, without the messages gathered so far, no
\* routine after k is invoked and the report is not handed to the sink.
C3_CancellationReturnedBare ==
    (observed # << >> /\ observed[Len(observed)] # NoError) =>
        /\ pc = "done"
        /\ ret = ContextCanceled
        /\ Len(invoked) = Len(observed)
        /\ invoked = [i \in 1..Len(invoked) |-> i]
        /\ ReportCalls = {}

\* the check after the first of two routines saw the cancellation when
\* messages had been gathered
C3_Witness ==
    /\ ret = ContextCanceled
    /\ numFns = 2
    /\ Len(observed) = 1
    /\ errors # << >>
    /\ invoked = <<1>>

\* C4: Collect returns nil exactly when no check saw the context cancelled,
\* no routine returned an error and no call of the sink failed, the one
\* for the report included; in every other run without an observed
\* cancellation it returns one error whose text is made of all the
\* messages gathered: each distinct message once, in ascending order,
\* joined by ", ".
C4_NilIffNothingFailed ==
    pc = "done" =>
        /\ ret = NoError <=>
               /\ NeverObserved
               /\ \A i \in 1..Len(returned) : returned[i].errs = << >>
               /\ \A i \in 1..Len(sink) : sink[i].err = NoError
        /\ (NeverObserved /\ ret # NoError) =>
               ret = Errorf(Join(AscendingSeq(AllMessages), CommaSpace))

\* a run that returned an aggregate error in which a message gathered
\* twice (the sink refused two Records of one name with one error) stands
\* once, next to another message
C4_Witness ==
    /\ ReturnedUncancelled
    /\ ret.kind = "fmt.Errorf"
    /\ \E i, j \in GatheredCalls :
           /\ i < j
           /\ sink[i].err # NoError
           /\ sink[i].err = sink[j].err
           /\ sink[i].record.Name = sink[j].record.Name
    /\ Cardinality(AllMessages) >= 2
    /\ Len(errors) = Cardinality(AllMessages)

\* every call of the sink failed, in a run no check saw cancelled
EverySinkCallFailed ==
    /\ ReturnedUncancelled
    /\ \A i \in 1..Len(sink) : sink[i].err # NoError

\* C5 as claimed: when every call of the sink fails, the returned error
\* holds as many "unable to record <name>: ..." messages as gathered
\* Records were handed to the sink.
C5_OneMessagePerRecord ==
    EverySinkCallFailed =>
        /\ ret.kind = "fmt.Errorf"
        /\ RecordMessagesIn(ret.text) = Cardinality(GatheredCalls)

\* C5 amended: when every call of the sink fails, Collect does not stop
\* (every routine is invoked, every Record and the report are handed to
\* the sink) and the returned error holds one "unable to record <name>:
\* ..." message for each distinct pair of Record name and sink error among
\* the gathered Records handed to the sink: equal messages are merged, so
\* the count is that of the Records only when no two of them give the same
\* message.
C5_OneMessagePerDistinctFailure ==
    EverySinkCallFailed =>
        /\ Len(invoked) = numFns
        /\ Len(sink) = Len(ReturnedRecords(returned)) + 1
        /\ ret.kind = "fmt.Errorf"
        /\ RecordMessagesIn(ret.text) = Cardinality(RecordMessages)
        /\ (Cardinality(RecordMessages) = Cardinality(GatheredCalls)
               => RecordMessagesIn(ret.text) = Cardinality(GatheredCalls))

\* every call failed, for two Records of different names and the report
C5_Witness ==
    /\ EverySinkCallFailed
    /\ Len(sink) = 3
    /\ sink[1].record.Name # sink[2].record.Name
    /\ RecordMessagesIn(ret.text) = 2

\* the report the routines' results call for: one entry for each routine,
\* in order, with the number of Records and the errors it returned
ExpectedReport ==
    [i \in 1..Len(returned) |->
        [Name |-> i,
         Report |-> Len(returned[i].records),
         Errors |-> returned[i].errs]]

\* C6: the report Record handed to the sink holds one entry for each
\* routine, in the order of invocation; entry i holds the number of Records
\* routine i returned, whether or not the sink took them, and the errors
\* routine i returned.
C6_ReportHoldsOneEntryPerRoutine ==
    \A c \in ReportCalls :
        /\ Len(sink[c].record.Item) = numFns
        /\ sink[c].record.Item = ExpectedReport

\* routine 1 returned two Records, one of which the sink refused, routine 2
\* returned no Record and the error "x": the report's second entry says
\* report: 0, errors: ["x"], its first report: 2
C6_Witness ==
    /\ ReportCalls # {}
    /\ numFns = 2
    /\ Len(returned[1].records) = 2
    /\ returned[1].errs = << >>
    /\ returned[2] = [records |-> << >>, errs |-> <<<<120>>>>]
    /\ sink[1].err # NoError
    /\ sink[Len(sink)].record.Item[1].Report = 2
    /\ sink[Len(sink)].record.Item[2].Report = 0
    /\ sink[Len(sink)].record.Item[2].Errors = <<<<120>>>>

(***************************************************************************)
(* Properties of sort.Strings followed by uniqueStrings                    *)
(***************************************************************************)
\* C7: for every list of strings, the empty list, a list of one and a
\* list of equal strings included, sorting it and then applying
\* uniqueStrings gives the distinct strings of the list, each once, in
\* ascending lexicographic order.
C7_SortedUniqueIsDistinctAscending ==
    listPc = "unique" =>
        /\ Range(list) = Range(listIn)
        /\ \A i \in 1..(Len(list) - 1) : LexLess(list[i], list[i + 1])
        /\ list = AscendingSeq(Range(listIn))

\* ["b", "a", "a", "c"] became ["a", "b", "c"]
C7_Witness ==
    /\ listPc = "unique"
    /\ listIn = <<<<98>>, <<97>>, <<97>>, <<99>>>>
    /\ list = <<<<97>>, <<98>>, <<99>>>>

(***************************************************************************)
(* Properties of the cluster version cache                                 *)
(***************************************************************************)
\* goroutine g is in setClusterVersion, past the comparison and the
\* assignment, with the lock still held
UpdateDecided(g) == callOp[g] = "set" /\ callPc[g] = "unlock"

\* the cache held the resourceVersion rv
Holds(cached, rv) == cached # Nil /\ cached.ResourceVersion = rv

\* C8: after any calls of setClusterVersion, an update with the
\* resourceVersion of the cached object leaves the cached object as it
\* was, and an update with another resourceVersion, or one that finds the
\* cache empty, puts the incoming object in its place.
C8_SameVersionKeptOtherReplaced ==
    \A g \in Goroutines :
        UpdateDecided(g) =>
            IF Holds(before[g], callArg[g].ResourceVersion)
            THEN lastVersion = before[g]
            ELSE lastVersion = callArg[g]

\* after earlier updates, an update with the cached resourceVersion and
\* another cluster ID has left the cached object as it was
C8_Witness ==
    \E g \in Goroutines :
        /\ UpdateDecided(g)
        /\ presented = ResourceVersions
        /\ Holds(before[g], callArg[g].ResourceVersion)
        /\ before[g] # callArg[g]
        /\ lastVersion = before[g]

\* C9 as claimed: an update with a resourceVersion that an earlier update
\* presented does not replace the cached object.
C9_SeenVersionNeverReplaces ==
    \A g \in Goroutines :
        (UpdateDecided(g) /\ callArg[g].ResourceVersion \in presented) =>
            lastVersion = before[g]

\* C9 amended: an update with a resourceVersion that an earlier update
\* presented leaves the cached object as it was only when that
\* resourceVersion is the one cached now; when another one is cached (1,
\* 2, then 1 again) the incoming object replaces the cached one.
C9_SeenVersionKeptOnlyIfCurrent ==
    \A g \in Goroutines :
        (UpdateDecided(g) /\ callArg[g].ResourceVersion \in presented) =>
            /\ before[g] # Nil
            /\ Holds(before[g], callArg[g].ResourceVersion)
                   => lastVersion = before[g]
            /\ ~Holds(before[g], callArg[g].ResourceVersion)
                   => (lastVersion = callArg[g] /\ lastVersion # before[g])

\* both resourceVersions were presented, the other one is cached, and the
\* update with the one seen before has replaced the cached object
C9_Witness ==
    \E g \in Goroutines :
        /\ UpdateDecided(g)
        /\ presented = ResourceVersions
        /\ callArg[g].ResourceVersion \in presented
        /\ before[g] # Nil
        /\ before[g].ResourceVersion # callArg[g].ResourceVersion
        /\ lastVersion = callArg[g]

\* the goroutines inside the section the lock guards
InGuardedSection ==
    {g \in Goroutines : callPc[g] \in {"compare", "assign", "read", "unlock"}}

\* at most one call is inside the guarded section
MutualExclusion == Cardinality(InGuardedSection) <= 1

\* what a read has got, the lock still held: nil from a cache never
\* written, or the cached object, put there by an update that has left the
\* guarded section
ReadReturnsInstalled ==
    \A g \in Goroutines :
        (callOp[g] = "get" /\ callPc[g] = "unlock") =>
            IF callResult[g] = Nil
            THEN ~written
            ELSE callResult[g] = lastVersion /\ installDone

\* two calls of setClusterVersion with the same resourceVersion, both past
\* their decision and neither returned to its caller: they ran at the same
\* time
ConcurrentSameVersion(g, h) ==
    /\ g # h
    /\ callOp[g] = "set" /\ callOp[h] = "set"
    /\ outcome[g] # "none" /\ outcome[h] # "none"
    /\ callArg[g].ResourceVersion = callArg[h].ResourceVersion

\* how many of the two replaced the cached object
Replacements(g, h) == Cardinality({x \in {g, h} : outcome[x] = "replaced"})

\* no call of setClusterVersion but those of g and h is under way
NoThirdUpdate(g, h) == \A x \in Goroutines \ {g, h} : callOp[x] # "set"

\* C10 as claimed: at most one call is inside the guarded section, a read
\* returns nil from a cache never written or the object an update that
\* left the guarded section installed, and two concurrent updates with the
\* same resourceVersion (no third update running with them) make exactly
\* one replacement.
C10_ExactlyOneReplacement ==
    /\ MutualExclusion
    /\ ReadReturnsInstalled
    /\ \A g, h \in Goroutines :
           (ConcurrentSameVersion(g, h) /\ NoThirdUpdate(g, h)) =>
               Replacements(g, h) = 1

\* C10 amended: at most one call is inside the guarded section, a read
\* returns nil from a cache never written or the object an update that
\* left the guarded section installed, and two concurrent updates with the
\* same resourceVersion, with no other resourceVersion installed while they
\* run, make at most one replacement: exactly one when the cache does not
\* hold that resourceVersion as the first of them takes the lock, none
\* when it does.
C10_AtomicCompareAndReplace ==
    /\ MutualExclusion
    /\ ReadReturnsInstalled
    /\ \A g, h \in Goroutines :
           (ConcurrentSameVersion(g, h) /\ ~otherSince[g] /\ ~otherSince[h]) =>
               /\ Replacements(g, h) <= 1
               /\ Replacements(g, h) = 1 <=>
                      \/ ~Holds(before[g], callArg[g].ResourceVersion)
                      \/ ~Holds(before[h], callArg[h].ResourceVersion)

\* two updates with the same resourceVersion ran at the same time on an
\* empty cache, one replaced and the other did not, and a read running
\* with them returned the installed object
C10_Witness ==
    \E g, h, r \in Goroutines :
        /\ ConcurrentSameVersion(g, h)
        /\ ~otherSince[g] /\ ~otherSince[h]
        /\ before[g] = Nil
        /\ outcome[g] = "replaced"
        /\ outcome[h] = "skipped"
        /\ callOp[r] = "get"
        /\ callResult[r] = lastVersion
        /\ lastVersion # Nil

(***************************************************************************)
(* Properties of the gather routines                                       *)
(***************************************************************************)
\* the position in bulkFns of the routine invoked last in this batch, 0
\* when none was
LastInvoked ==
    IF gPc = "forward" \/ (gPc = "returned" /\ gCancelled)
    THEN gIndex
    ELSE gIndex - 1

\* routine k has just returned, and lastIn and lastOut tell of it
RoutineRan(k) == kept = "answers" /\ gPc = "forward" /\ gIndex = k

\* the error of the List or Get call a routine makes on its own resource
OwnCallError == IF LastInvoked = 1 THEN lastIn.operators.err ELSE lastIn.err

\* the routine of the nodes
NodesRoutine == 2

\* C11 as claimed: for every gather routine, a "not found" answer to the
\* call on its resource makes it return no Record and no error.
C11_NotFoundReturnsNothing ==
    \A k \in 1..NumRoutines :
        (RoutineRan(k) /\ OwnCallError = NotFoundError) =>
            lastOut = Returns(<< >>, << >>)

\* C11 amended: for every gather routine but that of the nodes, a "not
\* found" answer to the call on its resource makes it return no Record and
\* no error; the routine of the nodes returns the answer as its one error,
\* and no Record.
C11_NotFoundReturnsNothingButForNodes ==
    \A k \in 1..NumRoutines :
        (RoutineRan(k) /\ OwnCallError = NotFoundError) =>
            IF k = NodesRoutine
            THEN lastOut = Returns(<< >>, <<NotFoundError>>)
            ELSE lastOut = Returns(<< >>, << >>)

\* the listing of the cluster operators was answered "not found" and the
\* routine returned no Record and no error, in a batch that went on to
\* the nodes
C11_Witness ==
    /\ RoutineRan(1)
    /\ lastIn.operators.err = NotFoundError
    /\ lastOut = Returns(<< >>, << >>)

\* some call of the routine invoked last failed with an error that is not
\* "not found": the call on its own resource, or a listing of pods
SomeCallFailed ==
    \/ OwnCallError = ServerError
    \/ /\ LastInvoked = 1
       /\ \E c \in DOMAIN lastIn.pods : lastIn.pods[c].err = ServerError

\* C12: for every gather routine, a failure other than "not found" of any
\* of its data-source calls, a listing of pods included, makes it return
\* exactly one error and no Record; and no routine returns both Records and
\* errors.
C12_FailureReturnsOneErrorNoRecord ==
    \A k \in 1..NumRoutines :
        RoutineRan(k) =>
            /\ SomeCallFailed =>
                   /\ lastOut.records = << >>
                   /\ Len(lastOut.errs) = 1
            /\ lastOut.records = << >> \/ lastOut.errs = << >>

\* a cluster operator judged healthy: no Degraded=True condition and no
\* Available=False condition
JudgedHealthyOperator(operator) ==
    \A i \in 1..Len(operator.Conditions) :
        /\ operator.Conditions[i] # Condition("Degraded", "True")
        /\ operator.Conditions[i] # Condition("Available", "False")

\* the Records of recs wrapped by anonymizer
RecordsWrappedBy(recs, anonymizer) ==
    SelectSeq(recs, LAMBDA r : r.Item.anonymizer = anonymizer)

\* the listing of the cluster operators succeeded
OperatorsListed == RoutineRan(1) /\ lastIn.operators.err = NoError

\* C13 as claimed: a "config/clusteroperator/<name>" Record is emitted only
\* for a cluster operator that is not judged healthy.
C13_OnlyUnhealthyOperatorsEmitted ==
    OperatorsListed =>
        LET emitted == RecordsWrappedBy(lastOut.records,
                                        "ClusterOperatorAnonymizer")
        IN  \A j \in 1..Len(emitted) :
                ~JudgedHealthyOperator(emitted[j].Item.object)

\* the namespaces named by the related objects of resource "namespaces" of
\* the cluster operators not judged healthy
NamespacesOfUnhealthyOperators(items) ==
    {n \in NamespaceNames :
        \E i \in 1..Len(items) :
            /\ ~JudgedHealthyOperator(items[i])
            /\ \E j \in 1..Len(items[i].RelatedObjects) :
                   items[i].RelatedObjects[j] = ObjectReference("namespaces", n)}

\* C13 amended: the health predicate is not applied before wrapping the
\* cluster operators: every listed cluster operator, judged healthy or not,
\* is emitted as a "config/clusteroperator/<name>" Record, in the order
\* listed; the predicate only decides whether the pods of the namespaces
\* related to the operator are listed.
C13_EveryOperatorEmitted ==
    OperatorsListed =>
        LET items == lastIn.operators.Items
            emitted == RecordsWrappedBy(lastOut.records,
                                        "ClusterOperatorAnonymizer")
        IN  /\ Len(emitted) = Len(items)
            /\ \A i \in 1..Len(items) :
                   /\ emitted[i].Name = ClusterOperatorPrefix \o items[i].Name
                   /\ emitted[i].Item.object = items[i]
            /\ {lastIn.pods[c].Namespace : c \in DOMAIN lastIn.pods}
                   = NamespacesOfUnhealthyOperators(items)

\* two cluster operators were listed, the first judged healthy and the
\* second not, and a Record was emitted for each
C13_Witness ==
    /\ OperatorsListed
    /\ Len(lastIn.operators.Items) = 2
    /\ JudgedHealthyOperator(lastIn.operators.Items[1])
    /\ ~JudgedHealthyOperator(lastIn.operators.Items[2])
    /\ Len(RecordsWrappedBy(lastOut.records, "ClusterOperatorAnonymizer")) = 2

\* a container status that shows a non-zero exit code, in its current or
\* in its last-terminated state
ShowsNonZeroExit(status) ==
    \/ status.State.terminated /\ status.State.ExitCode # 0
    \/ /\ status.LastTerminationState.terminated
       /\ status.LastTerminationState.ExitCode # 0

\* a pod judged unhealthy: Pending, or some init or regular container
\* shows a non-zero exit code
JudgedUnhealthyPod(pod) ==
    \/ pod.Status.Phase = "Pending"
    \/ \E i \in 1..Len(pod.Status.InitContainerStatuses) :
           ShowsNonZeroExit(pod.Status.InitContainerStatuses[i])
    \/ \E i \in 1..Len(pod.Status.ContainerStatuses) :
           ShowsNonZeroExit(pod.Status.ContainerStatuses[i])

\* the names of the pods, as a set
AllPodNames == {PodNames[i] : i \in 1..Len(PodNames)}

\* C14: a "config/pod/<namespace>/<name>" Record is emitted if and only if
\* the pod was listed from a namespace that a cluster operator not judged
\* healthy names among its related objects of resource "namespaces", and
\* the pod is judged unhealthy; no pod of another namespace and no pod
\* judged healthy is emitted, and nothing but pods is wrapped as a pod.
C14_PodEmittedIffUnhealthyOfUnhealthyOperator ==
    OperatorsListed =>
        LET listed == NamespacesOfUnhealthyOperators(lastIn.operators.Items)
            emitted == RecordsWrappedBy(lastOut.records, "PodAnonymizer")
            calls == DOMAIN lastIn.pods
        IN  /\ {lastIn.pods[c].Namespace : c \in calls} = listed
            /\ \A n \in NamespaceNames, name \in AllPodNames :
                   (\E j \in 1..Len(emitted) :
                        emitted[j].Name = PodRecordName(n, name))
                   <=> /\ n \in listed
                       /\ \E c \in calls :
                              /\ lastIn.pods[c].Namespace = n
                              /\ \E i \in 1..Len(lastIn.pods[c].Items) :
                                     /\ lastIn.pods[c].Items[i].Name = name
                                     /\ JudgedUnhealthyPod(
                                            lastIn.pods[c].Items[i])
            /\ \A j \in 1..Len(emitted) :
                   \E n \in listed, name \in AllPodNames :
                       emitted[j].Name = PodRecordName(n, name)

\* one cluster operator is judged healthy and names namespace "n2", the
\* other is not and names "n1"; the pod listed from "n1" is Running with
\* an init container that last ended with a non-zero exit code, and its
\* Record is the only one emitted for a pod
C14_Witness ==
    /\ OperatorsListed
    /\ Len(lastIn.operators.Items) = 2
    /\ JudgedHealthyOperator(lastIn.operators.Items[1])
    /\ \E j \in 1..Len(lastIn.operators.Items[1].RelatedObjects) :
           lastIn.operators.Items[1].RelatedObjects[j].Resource = "namespaces"
    /\ Len(lastIn.pods) = 1
    /\ lastIn.pods[1].Namespace = <<110, 49>>
    /\ Len(lastIn.pods[1].Items) = 1
    /\ lastIn.pods[1].Items[1].Status.Phase = "Running"
    /\ JudgedUnhealthyPod(lastIn.pods[1].Items[1])
    /\ Len(RecordsWrappedBy(lastOut.records, "PodAnonymizer")) = 1

\* a node that carries a Ready condition whose status is not True
HasReadyNotTrue(node) ==
    \E i \in 1..Len(node.Conditions) :
        /\ node.Conditions[i].Type = "Ready"
        /\ node.Conditions[i].Status # "True"

\* C15: the routine of the nodes emits a "config/node/<name>" Record for a
\* listed node if and only if the node carries a Ready condition whose
\* status is not True, and emits nothing else.
C15_NodeEmittedIffReadyNotTrue ==
    (RoutineRan(NodesRoutine) /\ lastIn.err = NoError) =>
        /\ \A i \in 1..Len(lastIn.Items) :
               (\E j \in 1..Len(lastOut.records) :
                    lastOut.records[j].Name
                        = NodePrefix \o lastIn.Items[i].Name)
               <=> HasReadyNotTrue(lastIn.Items[i])
        /\ Len(lastOut.records)
               = Cardinality({i \in 1..Len(lastIn.Items) :
                                 HasReadyNotTrue(lastIn.Items[i])})
        /\ lastOut.errs = << >>

\* two nodes were listed, the first without a Ready condition and the
\* second with Ready=False, and only the second was emitted
C15_Witness ==
    /\ RoutineRan(NodesRoutine)
    /\ lastIn.err = NoError
    /\ Len(lastIn.Items) = 2
    /\ lastIn.Items[1].Conditions = << >>
    /\ lastIn.Items[2].Conditions = <<Condition("Ready", "False")>>
    /\ NamesOf(lastOut.records) = <<NodePrefix \o lastIn.Items[2].Name>>

\* C17: within one batch, the Records handed to the sink carry pairwise
\* distinct names.
C17_NamesDistinctWithinBatch ==
    kept = "names" =>
        \A i, j \in 1..Len(forwarded) :
            i # j => forwarded[i] # forwarded[j]


(***************************************************************************)
(* The cached cluster version across batches                               *)
(***************************************************************************)
\* the routine of the cluster ID
IDRoutine == 4

\* the routine of the cluster ID has run in this batch, and fetched, idOut
\* and cachedAtStart tell of the batch
IDRoutineRan ==
    kept = "version" /\ gPc # "idle" /\ LastInvoked >= IDRoutine

\* the routine of the cluster ID returned one Record "config/id" holding id
EmitsID(id) ==
    /\ Len(idOut.records) = 1
    /\ idOut.records[1].Name = IDName
    /\ idOut.records[1].Item.object = id

\* the batch is over: Collect has returned
BatchOver == kept = "version" /\ gPc = "returned"

\* C19 as claimed: over the batches of one Gatherer the cache, once a fetch
\* has succeeded, is never empty again; and every batch, when it is over,
\* has emitted one Record "config/id" holding the cluster ID of the cached
\* object if its fetch succeeded, one holding the ID cached by an earlier
\* batch if its fetch failed or found nothing, and none, with no error,
\* only if no fetch has ever succeeded.
C19_IDEmittedInEveryBatch ==
    kept = "version" =>
        /\ everFetched => lastVersion # Nil
        /\ cachedAtStart # Nil => lastVersion # Nil
        /\ BatchOver =>
            /\ idOut.errs = << >>
            /\ fetched.err = NoError => EmitsID(lastVersion.ClusterID)
            /\ (fetched.err # NoError /\ cachedAtStart # Nil) =>
                   EmitsID(cachedAtStart.ClusterID)
            /\ idOut.records = << >> <=> ~everFetched

\* C19 amended: over the batches of one Gatherer the cache, once a fetch
\* has succeeded, is never empty again (neither at the start of a batch nor
\* later); a batch that is cancelled before the routine of the cluster ID
\* is invoked emits no "config/id"; and when the routine of the cluster ID
\* has run in a batch, it returned no error, and it returned one Record
\* "config/id" holding the cluster ID of the cached object if the cache was
\* not empty and no Record if it was: after a fetch that succeeded in this
\* batch there is the Record; after a fetch that failed or found nothing
\* the Record holds the ID cached by an earlier batch; and there is no
\* Record only when no fetch has ever succeeded.
C19_IDFollowsCache ==
    kept = "version" =>
        /\ everFetched => lastVersion # Nil
        /\ cachedAtStart # Nil => lastVersion # Nil
        /\ (gPc # "idle" /\ ~IDRoutineRan) => idOut = NotRun
        /\ IDRoutineRan =>
            /\ idOut.errs = << >>
            /\ IF lastVersion = Nil
               THEN idOut.records = << >>
               ELSE EmitsID(lastVersion.ClusterID)
            /\ fetched.err = NoError => Len(idOut.records) = 1
            /\ (fetched.err # NoError /\ cachedAtStart # Nil) =>
                   EmitsID(cachedAtStart.ClusterID)
            /\ idOut.records = << >> <=> ~everFetched

\* a batch whose fetch failed has returned "config/id" with the ID cached
\* by an earlier batch
C19_Witness ==
    /\ IDRoutineRan
    /\ fetched.err = ServerError
    /\ cachedAtStart # Nil
    /\ EmitsID(cachedAtStart.ClusterID)


(***************************************************************************)
(* Node anonymization                                                      *)
(***************************************************************************)
\* the keys among NodeKeys that contain "openshift.io/", "k8s.io/" or
\* "kubernetes.io/": "a.openshift.io/b", "k8s.io/c", "kubernetes.io/"
ProductKeys ==
    { 
    <<97, 46, 111, 112, 101, 110, 115, 104, 105, 102, 116, 46, 105, 111,
      47, 98>>,
      <<107, 56, 115, 46, 105, 111, 47, 99>>,
      <<107, 117, 98, 101, 114, 110, 101, 116, 101, 115, 46, 105, 111, 47>> }

\* s is a run of the placeholder character as long as original
MaskedLike(s, original) ==
    /\ Len(s) = Len(original)
    /\ \A i \in 1..Len(s) : s[i] = 120

\* C16: once a node is anonymized, its annotations and its labels have the
\* keys they had; under a key containing "openshift.io/", "k8s.io/" or
\* "kubernetes.io/" the value is the one given; every other annotation is
\* the empty string and every other label a run of "x" as long as the value
\* given; bootID, systemUUID and machineID are runs of "x" of the length
\* given; and there are no images.
C16_NodeAnonymized ==
    nodePc = "anonymized" =>
        /\ DOMAIN aNode.Annotations = DOMAIN nodeIn.Annotations
        /\ DOMAIN aNode.Labels = DOMAIN nodeIn.Labels
        /\ \A k \in DOMAIN nodeIn.Annotations :
            aNode.Annotations[k] =
                IF k \in ProductKeys THEN nodeIn.Annotations[k] ELSE << >>
        /\ \A k \in DOMAIN nodeIn.Labels :
            IF k \in ProductKeys
            THEN aNode.Labels[k] = nodeIn.Labels[k]
            ELSE MaskedLike(aNode.Labels[k], nodeIn.Labels[k])
        /\ MaskedLike(aNode.NodeInfo.BootID, nodeIn.NodeInfo.BootID)
        /\ MaskedLike(aNode.NodeInfo.SystemUUID, nodeIn.NodeInfo.SystemUUID)
        /\ MaskedLike(aNode.NodeInfo.MachineID, nodeIn.NodeInfo.MachineID)
        /\ aNode.Images = << >>

\* a node with images, a kept annotation, a blanked annotation, a kept
\* label and a masked label of two characters has been anonymized
C16_Witness ==
    /\ nodePc = "anonymized"
    /\ nodeIn.Images # << >>
    /\ nodeIn.NodeInfo.MachineID # << >>
    /\ \E k \in DOMAIN nodeIn.Annotations :
        k \in ProductKeys /\ nodeIn.Annotations[k] # << >>
    /\ \E k \in DOMAIN nodeIn.Annotations :
        k \notin ProductKeys /\ nodeIn.Annotations[k] # << >>
    /\ \E k \in DOMAIN nodeIn.Labels :
        k \in ProductKeys /\ nodeIn.Labels[k] # << >>
    /\ \E k \in DOMAIN nodeIn.Labels :
        k \notin ProductKeys /\ Len(nodeIn.Labels[k]) = 2


(***************************************************************************)
(* Cancellation and the routine under way                                  *)
(***************************************************************************)
\* the context was cancelled before a routine was invoked or while its
\* Records were forwarded
CancelledInRoutine == cancelledAt.pc \in {"gather", "forward"}

\* the routine under way when the context was cancelled: the one about to
\* be invoked, or the one whose Records were being forwarded
RoutineAtCancel ==
    IF cancelledAt.pc = "gather"
    THEN cancelledAt.invoked + 1
    ELSE cancelledAt.invoked

\* the Records returned by the routines invoked so far, in order
RecordsReturnedSoFar == ReturnedRecords(returned)

\* C18: when the context is cancelled before a routine is invoked or while
\* its Records are forwarded (the first routine included), what the sink
\* had received stays as it was, Collect does not return before that
\* routine has been invoked and each of its Records handed to the sink,
\* and it then returns the cancellation error without invoking another
\* routine.
C18_CancellationSeenAfterRoutine ==
    CancelledInRoutine =>
        /\ Len(sink) >= Len(cancelledAt.sink)
        /\ SubSeq(sink, 1, Len(cancelledAt.sink)) = cancelledAt.sink
        /\ Len(invoked) <= RoutineAtCancel
        /\ pc = "done" =>
               /\ ret = ContextCanceled
               /\ Len(invoked) = RoutineAtCancel
               /\ Len(observed) = RoutineAtCancel
               /\ [i \in 1..Len(sink) |-> sink[i].record] = RecordsReturnedSoFar

\* the context was cancelled before the first routine was invoked; the
\* routine returned two Records, both reached the sink, and Collect
\* returned the cancellation error
C18_Witness ==
    /\ cancelledAt.pc = "gather"
    /\ cancelledAt.invoked = 0
    /\ pc = "done"
    /\ ret = ContextCanceled
    /\ invoked = <<1>>
    /\ Len(returned[1].records) = 2
    /\ Len(sink) = 2

(***************************************************************************)
(* The cached cluster version is a copy of its own                         *)
(***************************************************************************)
\* C20: the object setClusterVersion stores is held by no Record and is
\* for ever as it was stored, whichever "config/version" Records have been
\* serialized since; and an object ClusterVersion() returned is for ever as
\* it was returned, whichever calls of setClusterVersion came later.
C20_CachedObjectNeverModified ==
    /\ \A c \in installed : c.at \notin wrapped /\ heap[c.at] = c.seen
    /\ \A r \in handedOut : heap[r.at] = r.seen

\* an object ClusterVersion() returned has since been replaced in the
\* cache, and the Record of the fetch it was copied from, and that of the
\* fetch which replaced it, have been serialized, their upstream URLs
\* overwritten
C20_Witness ==
    /\ \E r \in handedOut : r.at # cachedAt /\ r.seen.Upstream # << >>
    /\ pending = {}
    /\ \A at \in wrapped :
        \E upstream \in Upstreams :
            upstream # << >> /\ heap[at].Upstream = anonymizeURL(upstream)

====
